---- MODULE Spec2Model ----
(***************************************************************************)
(* Subscription cost aggregation of the subscription service.              *)
(*                                                                         *)
(* The subscriptions table, the clock, and Repository.SumByPeriod with the *)
(* aggregate query it sends to PostgreSQL (sumByPeriodSQL), next to the    *)
(* application-code helpers clampRange / monthsBetween and the hand-written *)
(* SQL repository.  Dates carry a day component: the handlers normalise    *)
(* every month they store or pass on, CURRENT_DATE is not normalised.      *)
(* Next to it the HTTP handlers of the service: summary, and create,       *)
(* update, delete and list with the goqu repository and the table's CHECK  *)
(* constraints behind them.                                                *)
(***************************************************************************)
EXTENDS Integers, Sequences, FiniteSets, TLC

VARIABLES
    store,   \* the subscriptions table: a sequence of rows
    now,     \* the clock: CURRENT_DATE of the database, time.Now().UTC() of the application
    call,    \* the request or call being served: its input and what it returned
    last,    \* history: the SumByPeriod call before it, made with the same filter
    listing  \* the List request in flight, between its two queries

vars == <<store, now, call, last, listing>>

----------------------------------------------------------------------------
(* Bounds of the model.                                                    *)

\* Months of the window the one-row specification draws dates from.
MaxMonths == 3
\* Months of the window the multi-row specifications draw dates from.
MaxSumMonths == 3
\* Months of the window the running clock moves through.
MaxClockMonths == 2
\* Days of a month the model distinguishes (1 .. MaxDay).
MaxDay == 2
\* Rows of the subscriptions table in the multi-row specifications.
MaxSubs == 2
\* Months of the window the tables taken apart row by row draw dates from.
MaxPairMonths == 2
\* Months of the window the requests to the summary endpoint draw dates from.
MaxQueryMonths == 2
\* Months of the window the date texts handed to parseMonth name.
MaxTextMonths == 12
\* Months of the window the write requests draw dates from.
MaxWriteMonths == 2
\* Rows the table holds at most while requests write to it.
MaxStored == 2

----------------------------------------------------------------------------
(* Calendar: a date is a calendar month (ym = year * 12 + month - 1) and a *)
(* day of that month; a time.Time at 00:00:00 UTC and a SQL DATE alike.    *)

MonthsPerYear == 12
defaultDayComponent == 1

Date(y, m, d) == [ym |-> y * MonthsPerYear + (m - 1), d |-> d]
Year(t) == t.ym \div MonthsPerYear
Month(t) == (t.ym % MonthsPerYear) + 1

\* time.Time.Before / After, and the order of SQL DATE values.
Before(a, b) == a.ym < b.ym \/ (a.ym = b.ym /\ a.d < b.d)
After(a, b) == Before(b, a)

\* normalizeMonth that keeps the day of the month.
normalizeMonth_KeepsDay(t) == Date(Year(t), Month(t), t.d)

normalizeMonth(t) == Date(Year(t), Month(t), defaultDayComponent)

\* The zero time.Time (January 1, year 1).
ZeroTime == Date(1, 1, 1)

\* SQL NULL and Go nil, per type.
NULL == [ym |-> 0 - 1, d |-> 0]
NoUser == "nil"
NoName == <<"nil">>

----------------------------------------------------------------------------
(* Text: a string is a sequence of one-character strings.                  *)

ToLowerChar(c) ==
    CASE c = "N" -> "n"
      [] c = "H" -> "h"
      [] OTHER -> c

ToLower(s) == [i \in 1..Len(s) |-> ToLowerChar(s[i])]

RECURSIVE TrimLeft(_)
TrimLeft(s) == IF s # <<>> /\ Head(s) = " " THEN TrimLeft(Tail(s)) ELSE s

RECURSIVE TrimRight(_)
TrimRight(s) ==
    IF s # <<>> /\ s[Len(s)] = " " THEN TrimRight(SubSeq(s, 1, Len(s) - 1)) ELSE s

TrimSpace(s) == TrimRight(TrimLeft(s))

----------------------------------------------------------------------------
(* The aggregate query sumByPeriodSQL, as PostgreSQL evaluates it.  $1, $2 *)
(* are the period (DATE or NULL), $3 the owner, $4 the service name.       *)

\* LOWER that leaves the text as it is written.
LOWER_AsWritten(s) == s

COALESCE(a, b) == IF a # NULL THEN a ELSE b
GREATEST(a, b) == IF After(b, a) THEN b ELSE a
LEAST(a, b) == IF Before(b, a) THEN b ELSE a
DATE_PART(field, t) == IF field = "year" THEN Year(t) ELSE Month(t)
LOWER(s) == ToLower(s)

\* eff_start without GREATEST: the period start taken as it is.
eff_start_Unclamped(s, p1) == COALESCE(p1, s.start_month)

\* ranges.eff_start
eff_start(s, p1) == GREATEST(s.start_month, COALESCE(p1, s.start_month))

\* eff_end from the subscription alone, the period end left out.
eff_end_IgnoresPeriod(s, p2, CURRENT_DATE) == COALESCE(s.end_month, CURRENT_DATE)

\* eff_end with both defaults set to CURRENT_DATE.
eff_end_CappedAtNow(s, p2, CURRENT_DATE) ==
    LEAST(COALESCE(s.end_month, CURRENT_DATE), COALESCE(p2, CURRENT_DATE))

\* ranges.eff_end
eff_end(s, p2, CURRENT_DATE) ==
    LEAST(COALESCE(s.end_month, COALESCE(p2, CURRENT_DATE)),
          COALESCE(p2, COALESCE(s.end_month, CURRENT_DATE)))

\* The conditions of the WHERE clause with the owner left out.
rangesFilter_AnyOwner(s, p3, p4) ==
    p4 = NoName \/ LOWER(s.service_name) = LOWER(p4)

\* The owner and service-name conditions of the WHERE clause of ranges.
rangesFilter(s, p3, p4) ==
    /\ (p3 = NoUser \/ s.user_id = p3)
    /\ (p4 = NoName \/ LOWER(s.service_name) = LOWER(p4))

\* The overlap conditions with start_month >= $1, as in the hand-written query.
rangesOverlap_StartsInside(s, p1, p2, CURRENT_DATE) ==
    /\ ~After(s.start_month, COALESCE(p2, COALESCE(s.end_month, CURRENT_DATE)))
    /\ ~Before(s.start_month, COALESCE(p1, s.start_month))

\* The overlap conditions of the WHERE clause of ranges.
rangesOverlap(s, p1, p2, CURRENT_DATE) ==
    /\ ~After(s.start_month, COALESCE(p2, COALESCE(s.end_month, CURRENT_DATE)))
    /\ ~Before(COALESCE(s.end_month, COALESCE(p2, CURRENT_DATE)),
               COALESCE(p1, s.start_month))

\* The month arithmetic without the + 1.
datePartMonths_Exclusive(es, ee) ==
    (DATE_PART("year", ee) - DATE_PART("year", es)) * MonthsPerYear
        + (DATE_PART("month", ee) - DATE_PART("month", es))

\* The month arithmetic without the years.
datePartMonths_NoYears(es, ee) ==
    (DATE_PART("month", ee) - DATE_PART("month", es)) + 1

\* The month arithmetic of the outer SELECT.
datePartMonths(es, ee) ==
    (DATE_PART("year", ee) - DATE_PART("year", es)) * MonthsPerYear
        + (DATE_PART("month", ee) - DATE_PART("month", es)) + 1

\* The selection with eff_end > eff_start.
rangeSelected_Strict(s, p1, p2, p3, p4, CURRENT_DATE) ==
    /\ rangesFilter(s, p3, p4)
    /\ rangesOverlap(s, p1, p2, CURRENT_DATE)
    /\ After(eff_end(s, p2, CURRENT_DATE), eff_start(s, p1))

\* The selection without the outer WHERE eff_end >= eff_start.
rangeSelected_InRanges(s, p1, p2, p3, p4, CURRENT_DATE) ==
    /\ rangesFilter(s, p3, p4)
    /\ rangesOverlap(s, p1, p2, CURRENT_DATE)

\* Whether row s reaches the SUM: it is in ranges and passes eff_end >= eff_start.
rangeSelected(s, p1, p2, p3, p4, CURRENT_DATE) ==
    /\ rangesFilter(s, p3, p4)
    /\ rangesOverlap(s, p1, p2, CURRENT_DATE)
    /\ ~Before(eff_end(s, p2, CURRENT_DATE), eff_start(s, p1))

\* The term row s adds to the SUM (0 when it is not selected).
rangeAmount(s, p1, p2, p3, p4, CURRENT_DATE) ==
    IF rangeSelected(s, p1, p2, p3, p4, CURRENT_DATE)
    THEN s.price_rub * datePartMonths(eff_start(s, p1), eff_end(s, p2, CURRENT_DATE))
    ELSE 0

\* The SUM over the first row only.
RECURSIVE sumByPeriodSQL_FirstRow(_, _, _, _, _, _)
sumByPeriodSQL_FirstRow(rows, p1, p2, p3, p4, CURRENT_DATE) ==
    IF rows = <<>>
    THEN 0
    ELSE rangeAmount(Head(rows), p1, p2, p3, p4, CURRENT_DATE)

RECURSIVE sumByPeriodSQL(_, _, _, _, _, _)
sumByPeriodSQL(rows, p1, p2, p3, p4, CURRENT_DATE) ==
    IF rows = <<>>
    THEN 0
    ELSE rangeAmount(Head(rows), p1, p2, p3, p4, CURRENT_DATE)
            + sumByPeriodSQL(Tail(rows), p1, p2, p3, p4, CURRENT_DATE)

----------------------------------------------------------------------------
(* Repository.SumByPeriod: the arguments it binds and what it returns.     *)
(* failed: the database answered the query with an error.  queries: the    *)
(* QueryRowContext calls made, each with whether it failed.                *)

sumStart(filter) ==
    IF filter.StartMonth # NULL THEN normalizeMonth(filter.StartMonth) ELSE NULL

sumEnd(filter) ==
    IF filter.EndMonth # NULL THEN normalizeMonth(filter.EndMonth) ELSE NULL

\* sumName without the trim and the test for a blank name.
sumName_AsGiven(filter) == filter.ServiceName

sumName(filter) ==
    IF filter.ServiceName # NoName
    THEN IF TrimSpace(filter.ServiceName) = <<>> THEN NoName
         ELSE TrimSpace(filter.ServiceName)
    ELSE NoName

\* SumByPeriod that runs the query a second time when the first one failed.
SumByPeriod_Retries(rows, filter, failed, CURRENT_DATE) ==
    [total |-> sumByPeriodSQL(rows, sumStart(filter), sumEnd(filter),
                              filter.UserID, sumName(filter), CURRENT_DATE),
     err |-> FALSE,
     queries |-> IF failed THEN <<failed, FALSE>> ELSE <<failed>>]

SumByPeriod(rows, filter, failed, CURRENT_DATE) ==
    IF failed
    THEN [total |-> 0, err |-> TRUE, queries |-> <<failed>>]
    ELSE [total |-> sumByPeriodSQL(rows, sumStart(filter), sumEnd(filter),
                                   filter.UserID, sumName(filter), CURRENT_DATE),
          err |-> FALSE, queries |-> <<failed>>]

----------------------------------------------------------------------------
(* The application-code helpers monthsBetween and clampRange.              *)

\* monthsBetween without the test for an end before the start.
monthsBetween_Signed(start, end) ==
    (Year(normalizeMonth(end)) - Year(normalizeMonth(start))) * MonthsPerYear
        + (Month(normalizeMonth(end)) - Month(normalizeMonth(start))) + 1

\* monthsBetween without the + 1.
monthsBetween_Exclusive(start, end) ==
    IF Before(normalizeMonth(end), normalizeMonth(start))
    THEN 0
    ELSE (Year(normalizeMonth(end)) - Year(normalizeMonth(start))) * MonthsPerYear
            + (Month(normalizeMonth(end)) - Month(normalizeMonth(start)))

monthsBetween(start, end) ==
    IF Before(normalizeMonth(end), normalizeMonth(start))
    THEN 0
    ELSE (Year(normalizeMonth(end)) - Year(normalizeMonth(start))) * MonthsPerYear
            + (Month(normalizeMonth(end)) - Month(normalizeMonth(start))) + 1

\* start of clampRange, before the final comparison.
clampStart(subStart, periodStart) ==
    IF periodStart # NULL /\ After(normalizeMonth(periodStart), normalizeMonth(subStart))
    THEN normalizeMonth(periodStart)
    ELSE normalizeMonth(subStart)

\* clampRange's end with the period end taken whenever there is one.
clampEnd_PeriodEndWins(subEnd, periodEnd, clock) ==
    CASE periodEnd # NULL -> normalizeMonth(periodEnd)
      [] subEnd # NULL -> normalizeMonth(subEnd)
      [] OTHER -> normalizeMonth(clock)

\* clampRange's end with an open period ending at the clock.
clampEnd_OpenPeriodAtNow(subEnd, periodEnd, clock) ==
    CASE subEnd # NULL /\ periodEnd # NULL ->
            IF Before(normalizeMonth(periodEnd), normalizeMonth(subEnd))
            THEN normalizeMonth(periodEnd)
            ELSE normalizeMonth(subEnd)
      [] subEnd = NULL /\ periodEnd # NULL -> normalizeMonth(periodEnd)
      [] OTHER -> normalizeMonth(clock)

\* clampRange's end with the clock not truncated to its month.
clampEnd_RawClock(subEnd, periodEnd, clock) ==
    CASE subEnd # NULL /\ periodEnd # NULL ->
            IF Before(normalizeMonth(periodEnd), normalizeMonth(subEnd))
            THEN normalizeMonth(periodEnd)
            ELSE normalizeMonth(subEnd)
      [] subEnd # NULL /\ periodEnd = NULL -> normalizeMonth(subEnd)
      [] subEnd = NULL /\ periodEnd # NULL -> normalizeMonth(periodEnd)
      [] OTHER -> clock

\* end of clampRange, before the final comparison; clock is time.Now().UTC().
clampEnd(subEnd, periodEnd, clock) ==
    CASE subEnd # NULL /\ periodEnd # NULL ->
            IF Before(normalizeMonth(periodEnd), normalizeMonth(subEnd))
            THEN normalizeMonth(periodEnd)
            ELSE normalizeMonth(subEnd)
      [] subEnd # NULL /\ periodEnd = NULL -> normalizeMonth(subEnd)
      [] subEnd = NULL /\ periodEnd # NULL -> normalizeMonth(periodEnd)
      [] OTHER -> normalizeMonth(clock)

\* clampRange taking a range of a single month for no overlap.
clampRange_NoSingleMonth(subStart, subEnd, periodStart, periodEnd, clock) ==
    IF ~After(clampEnd(subEnd, periodEnd, clock), clampStart(subStart, periodStart))
    THEN [start |-> ZeroTime, end |-> ZeroTime, ok |-> FALSE]
    ELSE [start |-> clampStart(subStart, periodStart),
          end |-> clampEnd(subEnd, periodEnd, clock),
          ok |-> TRUE]

clampRange(subStart, subEnd, periodStart, periodEnd, clock) ==
    IF Before(clampEnd(subEnd, periodEnd, clock), clampStart(subStart, periodStart))
    THEN [start |-> ZeroTime, end |-> ZeroTime, ok |-> FALSE]
    ELSE [start |-> clampStart(subStart, periodStart),
          end |-> clampEnd(subEnd, periodEnd, clock),
          ok |-> TRUE]

----------------------------------------------------------------------------
(* SumByPeriod of the hand-written SQL repository: a WHERE clause built    *)
(* from the filter and SELECT COALESCE(SUM(price_rub), 0).                 *)

plainWhere(s, filter) ==
    /\ (filter.StartMonth # NULL => ~Before(s.start_month, filter.StartMonth))
    /\ (filter.EndMonth # NULL => ~After(s.start_month, filter.EndMonth))
    /\ (filter.UserID # NoUser => s.user_id = filter.UserID)
    /\ (filter.ServiceName # NoName =>
            ToLower(s.service_name) = ToLower(filter.ServiceName))

RECURSIVE plainSum(_, _)
plainSum(rows, filter) ==
    IF rows = <<>>
    THEN 0
    ELSE (IF plainWhere(Head(rows), filter) THEN Head(rows).price_rub ELSE 0)
            + plainSum(Tail(rows), filter)

PlainSumByPeriod(rows, filter, failed) ==
    IF failed
    THEN [total |-> 0, err |-> TRUE, queries |-> <<failed>>]
    ELSE [total |-> plainSum(rows, filter), err |-> FALSE, queries |-> <<failed>>]

----------------------------------------------------------------------------
(* What the specifications draw from.                                      *)

\* December 2025: the windows cross a year boundary.
FirstMonth == 2025 * MonthsPerYear + 11

Window(n) == FirstMonth .. (FirstMonth + n - 1)
Days == 1 .. MaxDay

\* Every date of the months ms.
Dates(ms) == {[ym |-> m, d |-> d] : m \in ms, d \in Days}

\* What parseMonth hands on for a date of the months ms.
MonthsOf(ms) == {normalizeMonth(t) : t \in Dates(ms)}

Users == {"u1", "u2"}
Names == {<<"N">>, <<"h">>}
Prices == {1, 3}

\* The rows the table can hold with months of ms: Handler.create stores
\* normalised months and a trimmed name, the table's CHECKs ask for a
\* non-blank name, price_rub >= 0 and end_month IS NULL OR end_month >= start_month.
Rows(ms) ==
    {s \in [service_name : Names, price_rub : Prices, user_id : Users,
            start_month : MonthsOf(ms), end_month : MonthsOf(ms) \cup {NULL}] :
        /\ TrimSpace(s.service_name) # <<>>
        /\ s.price_rub >= 0
        /\ (s.end_month = NULL \/ ~Before(s.end_month, s.start_month))}

\* Tables of at most n rows.
Tables(ms, n) == UNION {[1..k -> Rows(ms)] : k \in 0..n}

FilterUsers == {NoUser, "u1"}
FilterNames == {NoName, <<"n", " ">>, <<" ">>}

\* The SumFilter values with period bounds of ds.
Filters(ds) ==
    [StartMonth : ds \cup {NULL}, EndMonth : ds \cup {NULL},
     UserID : FilterUsers, ServiceName : FilterNames]

NoFilter == [StartMonth |-> NULL, EndMonth |-> NULL, UserID |-> NoUser, ServiceName |-> NoName]
NoRange == [start |-> ZeroTime, end |-> ZeroTime, ok |-> FALSE]
\* The filters that carry a period and nothing else.
Periods(ds) == {f \in Filters(ds) : f.UserID = NoUser /\ f.ServiceName = NoName}

\* Rows as clampRange and the query text take them, the table's CHECK on
\* end_month set aside: a subscription may end before it starts.
AnyRows(ms) ==
    [service_name : Names, price_rub : Prices, user_id : Users,
     start_month : MonthsOf(ms), end_month : MonthsOf(ms) \cup {NULL}]

NoQuery == [start |-> <<>>, end |-> <<>>, user_id |-> "", service_name |-> <<>>]
NoResp == [status |-> 0, has_total |-> FALSE, total_price |-> 0, error |-> ""]
\* A request body: a field that is absent is the zero value of its Go type
\* (NoName for a nil *string, <<>> for a nil *int or an empty string).
NoReq ==
    [service_name |-> <<>>, price |-> <<>>, user_id |-> "",
     start_date |-> <<>>, end_date |-> NoName]
NoParams ==
    [ServiceName |-> NoName, PriceRUB |-> <<>>, UserID |-> NoUser,
     StartMonth |-> NULL, EndMonth |-> NULL, EndMonthSet |-> FALSE]
NoCall ==
    [op |-> "none", filter |-> NoFilter, total |-> 0, err |-> FALSE,
     queries |-> <<>>, range |-> NoRange, at |-> NULL,
     query |-> NoQuery, resp |-> NoResp,
     id |-> "", req |-> NoReq, params |-> NoParams, called |-> FALSE,
     before |-> <<>>]
\* No List request is in flight.
NoListQuery == [page |-> NoName, limit |-> NoName]
NoListing ==
    [pc |-> "idle", query |-> NoListQuery, page |-> 0, limit |-> 0,
     opts |-> [Limit |-> 0, Offset |-> 0], sql |-> [limit |-> 0, offset |-> 0],
     items |-> <<>>, total |-> 0, status |-> 0, read |-> <<>>]
NoLast == [seen |-> FALSE, total |-> 0, err |-> FALSE, at |-> NULL]

----------------------------------------------------------------------------
(* Handler.summary: the query string, parseMonth, uuid.Parse and the       *)
(* response.  A date text is the sequence of its fields, separators and    *)
(* blanks; an absent query parameter is the empty text.                    *)

layoutYearMonth == "2006-01"
layoutMonthYear == "01-2006"
layoutFullDate == "2006-01-02"

\* The two-digit fields time.Parse reads as 1 .. 12.
TwoDigits == <<"01", "02", "03", "04", "05", "06", "07", "08", "09", "10", "11", "12">>

\* The four-digit fields of the years the windows reach.
YearText(y) ==
    CASE y = 2025 -> "2025"
      [] y = 2026 -> "2026"
      [] OTHER -> "0000"

IsTwoDigits(f) == \E n \in 1..Len(TwoDigits) : TwoDigits[n] = f
AtoiTwoDigits(f) == CHOOSE n \in 1..Len(TwoDigits) : TwoDigits[n] = f
IsYear(f) == \E y \in 2025..2026 : YearText(y) = f
AtoiYear(f) == CHOOSE y \in 2025..2026 : YearText(y) = f

\* time.Parse(layout, value): the time read, or an error.
timeParse(layout, value) ==
    CASE layout = layoutYearMonth /\ Len(value) = 3 /\ IsYear(value[1])
            /\ value[2] = "-" /\ IsTwoDigits(value[3]) ->
            [ok |-> TRUE, t |-> Date(AtoiYear(value[1]), AtoiTwoDigits(value[3]), 1)]
      [] layout = layoutMonthYear /\ Len(value) = 3 /\ IsTwoDigits(value[1])
            /\ value[2] = "-" /\ IsYear(value[3]) ->
            [ok |-> TRUE, t |-> Date(AtoiYear(value[3]), AtoiTwoDigits(value[1]), 1)]
      [] layout = layoutFullDate /\ Len(value) = 5 /\ IsYear(value[1])
            /\ value[2] = "-" /\ IsTwoDigits(value[3])
            /\ value[4] = "-" /\ IsTwoDigits(value[5]) ->
            [ok |-> TRUE, t |-> Date(AtoiYear(value[1]), AtoiTwoDigits(value[3]),
                                     AtoiTwoDigits(value[5]))]
      [] OTHER -> [ok |-> FALSE, t |-> ZeroTime]

\* parseMonth that hands back the zero time without an error for a text it
\* cannot read.
parseMonth_NoError(value) ==
    LET v == TrimSpace(value)
        ym == timeParse(layoutYearMonth, v)
        my == timeParse(layoutMonthYear, v)
        full == timeParse(layoutFullDate, v)
    IN IF ym.ok THEN [t |-> normalizeMonth(ym.t), err |-> ""]
       ELSE IF my.ok THEN [t |-> normalizeMonth(my.t), err |-> ""]
       ELSE IF full.ok THEN [t |-> normalizeMonth(full.t), err |-> ""]
       ELSE [t |-> ZeroTime, err |-> ""]

parseMonth(value) ==
    LET v == TrimSpace(value)
        ym == timeParse(layoutYearMonth, v)
        my == timeParse(layoutMonthYear, v)
        full == timeParse(layoutFullDate, v)
    IN IF v = <<>>
       THEN [t |-> ZeroTime, err |-> "date value cannot be empty"]
       ELSE IF ym.ok THEN [t |-> normalizeMonth(ym.t), err |-> ""]
       ELSE IF my.ok THEN [t |-> normalizeMonth(my.t), err |-> ""]
       ELSE IF full.ok THEN [t |-> normalizeMonth(full.t), err |-> ""]
       ELSE [t |-> ZeroTime, err |-> "date must be in YYYY-MM or MM-YYYY format"]

\* parseMonthPtr that takes a text it cannot read for an absent one.
parseMonthPtr_Lenient(value) ==
    LET r == parseMonth(value)
    IN [t |-> IF r.err # "" THEN NULL ELSE r.t, err |-> ""]

parseMonthPtr(value) ==
    LET r == parseMonth(value)
    IN IF r.err # "" THEN [t |-> NULL, err |-> r.err] ELSE [t |-> r.t, err |-> ""]

\* uuid.Parse: the canonical texts, and one text in capitals for the same id.
uuidParse(text) ==
    CASE text \in {"u1", "u2", "u3", "s1", "s2", "s3"} -> [id |-> text, ok |-> TRUE]
      [] text = "U1" -> [id |-> "u1", ok |-> TRUE]
      [] text = "S1" -> [id |-> "s1", ok |-> TRUE]
      [] OTHER -> [id |-> NoUser, ok |-> FALSE]

NoResult == [total |-> 0, err |-> FALSE, queries |-> <<>>]

\* c.JSON(status, gin.H{...}): total_price is in the body when has_total.
JSON(status, has_total, total_price, error) ==
    [status |-> status, has_total |-> has_total, total_price |-> total_price,
     error |-> error]

StatusOK == 200
StatusBadRequest == 400
StatusInternalServerError == 500

\* A request the handler turns down before it reaches the service.
Rejected(error) ==
    [resp |-> JSON(StatusBadRequest, FALSE, 0, error), filter |-> NoFilter,
     result |-> NoResult]

\* Handler.summary on query q over the table rows: the response, the
\* SumFilter handed to the service and what the repository returned.
summary(rows, q, failed, CURRENT_DATE) ==
    LET startMonth == IF q.start # <<>> THEN parseMonthPtr(q.start)
                      ELSE [t |-> NULL, err |-> ""]
        endMonth == IF q.end # <<>> THEN parseMonthPtr(q.end)
                    ELSE [t |-> NULL, err |-> ""]
        userID == IF q.user_id # "" THEN uuidParse(q.user_id)
                  ELSE [id |-> NoUser, ok |-> TRUE]
        name == TrimSpace(q.service_name)
        filter == [StartMonth |-> startMonth.t, EndMonth |-> endMonth.t,
                   UserID |-> userID.id,
                   ServiceName |-> IF name # <<>> THEN name ELSE NoName]
        result == SumByPeriod(rows, filter, failed, CURRENT_DATE)
    IN IF startMonth.err # "" THEN Rejected(startMonth.err)
       ELSE IF endMonth.err # "" THEN Rejected(endMonth.err)
       ELSE IF startMonth.t # NULL /\ endMonth.t # NULL
                /\ Before(endMonth.t, startMonth.t)
       THEN Rejected("end must be after start")
       ELSE IF ~userID.ok THEN Rejected("invalid user_id")
       ELSE IF result.err
       THEN [resp |-> JSON(StatusInternalServerError, FALSE, 0, "sum subscriptions"),
             filter |-> filter, result |-> result]
       ELSE [resp |-> JSON(StatusOK, TRUE, result.total, ""),
             filter |-> filter, result |-> result]

\* The texts a client writes for date t in each of the three layouts, and
\* the first of them with blanks around it.
FormatYearMonth(t) == <<YearText(Year(t)), "-", TwoDigits[Month(t)]>>
FormatMonthYear(t) == <<TwoDigits[Month(t)], "-", YearText(Year(t))>>
FormatFullDate(t) == <<YearText(Year(t)), "-", TwoDigits[Month(t)], "-", TwoDigits[t.d]>>

\* Values of the start parameter: absent, blank, a month that does not
\* exist, and every date of ms in every layout.
StartTexts(ms) ==
    {<<>>, <<" ">>, <<"2025", "-", "13">>}
        \cup {FormatYearMonth(t) : t \in MonthsOf(ms)}
        \cup {<<" ">> \o FormatYearMonth(t) \o <<" ">> : t \in MonthsOf(ms)}
        \cup {FormatMonthYear(t) : t \in MonthsOf(ms)}
        \cup {FormatFullDate(t) : t \in Dates(ms)}

\* Values of the end parameter: absent, not a date, and every month of ms.
EndTexts(ms) == {<<>>, <<"x">>} \cup {FormatYearMonth(t) : t \in MonthsOf(ms)}

\* Values of user_id: absent, an owner, the same in capitals, an id no row
\* has, and a text that is no UUID.
UserTexts == {"", "u1", "U1", "u3", "bad"}

\* Values of service_name: absent, blank, and a name with a blank after it.
NameTexts == {<<>>, <<" ">>, <<"n", " ">>}

\* Texts handed to parseMonth: those of StartTexts, the other layouts with
\* blanks around them, and texts that are no date.
MonthTexts(ms) ==
    StartTexts(ms)
        \cup {FormatMonthYear(t) \o <<" ">> : t \in MonthsOf(ms)}
        \cup {<<" ">> \o FormatFullDate(t) : t \in Dates(ms)}
        \cup {<<"x">>, <<"2025", "12">>, <<"2025", "-", "12", "-">>}

Queries(ms) ==
    [start : StartTexts(ms), end : EndTexts(ms), user_id : UserTexts,
     service_name : NameTexts]

----------------------------------------------------------------------------
(* The subscriptions table under writes: its CHECK constraints, and the    *)
(* goqu repository's Create, Update and Delete.  A stored row carries its  *)
(* id; the table is kept in the order the rows were created.               *)

\* The table without the CHECK on end_month.
checkEndMonth_None(s) == TRUE

\* CHECK (end_month IS NULL OR end_month >= start_month)
checkEndMonth(s) == s.end_month = NULL \/ ~Before(s.end_month, s.start_month)

\* The CHECK constraints of the table on a row to be written.
tableChecks(s) ==
    /\ Len(TrimSpace(s.service_name)) > 0
    /\ s.price_rub >= 0
    /\ checkEndMonth(s)

\* The ids uuid_generate_v4 hands out.
Ids == {"s1", "s2", "s3"}

IdsOf(rows) == {rows[i].id : i \in 1..Len(rows)}

\* Repository.Create: INSERT ... RETURNING with the id the database drew.
Create(rows, params, failed, newID) ==
    LET row == [id |-> newID, service_name |-> params.ServiceName,
                price_rub |-> params.PriceRUB[1], user_id |-> params.UserID,
                start_month |-> params.StartMonth, end_month |-> params.EndMonth]
    IN IF failed \/ ~tableChecks(row)
       THEN [rows |-> rows, err |-> "insert subscription"]
       ELSE [rows |-> Append(rows, row), err |-> ""]

\* Repository.GetByID.
GetByID(rows, id, failed) ==
    IF failed THEN "select subscription"
    ELSE IF uuidParse(id).id \in IdsOf(rows) THEN "" ELSE "sql: no rows in result set"

\* The row of an UPDATE: the columns of updates set, the others kept.
updated(s, params) ==
    [s EXCEPT !.service_name = IF params.ServiceName # NoName
                               THEN params.ServiceName ELSE @,
              !.price_rub = IF params.PriceRUB # <<>> THEN params.PriceRUB[1] ELSE @,
              !.start_month = IF params.StartMonth # NULL THEN params.StartMonth ELSE @,
              !.end_month = IF params.EndMonthSet THEN params.EndMonth ELSE @]

\* Repository.Update: GetByID when nothing is to be set, else UPDATE ...
\* WHERE id = $1 RETURNING.
Update(rows, id, params, failed) ==
    IF /\ params.ServiceName = NoName /\ params.PriceRUB = <<>>
       /\ params.StartMonth = NULL /\ ~params.EndMonthSet
    THEN [rows |-> rows, err |-> GetByID(rows, id, failed)]
    ELSE IF failed THEN [rows |-> rows, err |-> "update subscription"]
    ELSE IF id \notin IdsOf(rows) THEN [rows |-> rows, err |-> "sql: no rows in result set"]
    ELSE IF \E i \in 1..Len(rows) : rows[i].id = id /\ ~tableChecks(updated(rows[i], params))
    THEN [rows |-> rows, err |-> "update subscription"]
    ELSE [rows |-> [i \in 1..Len(rows) |->
                        IF rows[i].id = id THEN updated(rows[i], params) ELSE rows[i]],
          err |-> ""]

\* Repository.Delete: DELETE ... WHERE id = $1, sql.ErrNoRows when no row
\* was affected.
Delete(rows, id, failed) ==
    LET Others(s) == s.id # uuidParse(id).id
    IN IF failed THEN [rows |-> rows, err |-> "delete subscription"]
       ELSE IF uuidParse(id).id \notin IdsOf(rows)
       THEN [rows |-> rows, err |-> "sql: no rows in result set"]
       ELSE [rows |-> SelectSeq(rows, Others), err |-> ""]

----------------------------------------------------------------------------
(* Handler.create, Handler.update and Handler.delete.                      *)

StatusCreated == 201
StatusNoContent == 204
StatusNotFound == 404

\* What a write handler leaves: the response, the parameters handed to the
\* service, whether the store was called, and the table after it.
Answer(status, error, params, called, rows) ==
    [resp |-> JSON(status, FALSE, 0, error), params |-> params, called |-> called,
     rows |-> rows]

\* POST /subscriptions with body req.
create(rows, req, failed, newID) ==
    LET userID == uuidParse(req.user_id)
        startMonth == parseMonth(req.start_date)
        hasEnd == req.end_date # NoName /\ TrimSpace(req.end_date) # <<>>
        parsed == IF hasEnd THEN parseMonth(req.end_date) ELSE [t |-> NULL, err |-> ""]
        params == [NoParams EXCEPT !.ServiceName = TrimSpace(req.service_name),
                                   !.PriceRUB = req.price,
                                   !.UserID = userID.id,
                                   !.StartMonth = startMonth.t,
                                   !.EndMonth = parsed.t]
        made == Create(rows, params, failed, newID)
    IN IF \/ req.service_name = <<>> \/ req.price = <<>> \/ req.user_id = ""
          \/ req.start_date = <<>>
       THEN Answer(StatusBadRequest, "binding: required", NoParams, FALSE, rows)
       ELSE IF req.price[1] <= 0
       THEN Answer(StatusBadRequest, "binding: price", NoParams, FALSE, rows)
       ELSE IF ~userID.ok
       THEN Answer(StatusBadRequest, "invalid user_id", NoParams, FALSE, rows)
       ELSE IF startMonth.err # ""
       THEN Answer(StatusBadRequest, startMonth.err, NoParams, FALSE, rows)
       ELSE IF parsed.err # ""
       THEN Answer(StatusBadRequest, parsed.err, NoParams, FALSE, rows)
       ELSE IF hasEnd /\ Before(parsed.t, startMonth.t)
       THEN Answer(StatusBadRequest, "end_date cannot be before start_date",
                   NoParams, FALSE, rows)
       ELSE IF made.err # ""
       THEN Answer(StatusInternalServerError, made.err, params, TRUE, made.rows)
       ELSE Answer(StatusCreated, "", params, TRUE, made.rows)

\* PATCH /subscriptions/:id with body req.
update(rows, id, req, failed) ==
    LET subID == uuidParse(id)
        start == IF req.start_date # NoName THEN parseMonth(req.start_date)
                 ELSE [t |-> NULL, err |-> ""]
        hasEnd == req.end_date # NoName /\ TrimSpace(req.end_date) # <<>>
        end == IF hasEnd THEN parseMonth(req.end_date) ELSE [t |-> NULL, err |-> ""]
        params == [NoParams EXCEPT !.ServiceName = IF req.service_name # NoName
                                                   THEN TrimSpace(req.service_name)
                                                   ELSE NoName,
                                   !.PriceRUB = req.price,
                                   !.StartMonth = start.t,
                                   !.EndMonth = end.t,
                                   !.EndMonthSet = req.end_date # NoName]
        done == Update(rows, subID.id, params, failed)
    IN IF ~subID.ok
       THEN Answer(StatusBadRequest, "invalid id", NoParams, FALSE, rows)
       ELSE IF req.price # <<>> /\ req.price[1] < 0
       THEN Answer(StatusBadRequest, "price cannot be negative", NoParams, FALSE, rows)
       ELSE IF start.err # ""
       THEN Answer(StatusBadRequest, start.err, NoParams, FALSE, rows)
       ELSE IF end.err # ""
       THEN Answer(StatusBadRequest, end.err, NoParams, FALSE, rows)
       ELSE IF hasEnd /\ start.t # NULL /\ Before(end.t, start.t)
       THEN Answer(StatusBadRequest, "end_date cannot be before start_date",
                   NoParams, FALSE, rows)
       ELSE IF done.err = "sql: no rows in result set"
       THEN Answer(StatusNotFound, "subscription not found", params, TRUE, done.rows)
       ELSE IF done.err # ""
       THEN Answer(StatusInternalServerError, done.err, params, TRUE, done.rows)
       ELSE Answer(StatusOK, "", params, TRUE, done.rows)

\* DELETE /subscriptions/:id.
delete(rows, id, failed) ==
    LET gone == Delete(rows, id, failed)
    IN IF ~uuidParse(id).ok
       THEN Answer(StatusBadRequest, "invalid id", NoParams, FALSE, rows)
       ELSE IF gone.err = "sql: no rows in result set"
       THEN Answer(StatusNotFound, "subscription not found", NoParams, TRUE, gone.rows)
       ELSE IF gone.err # ""
       THEN Answer(StatusInternalServerError, gone.err, NoParams, TRUE, gone.rows)
       ELSE Answer(StatusNoContent, "", NoParams, TRUE, gone.rows)

----------------------------------------------------------------------------
(* Handler.list and Repository.List: the page query and the count query.   *)

defaultPage == 1
defaultLimit == 2
maxLimit == 100

\* The decimal texts the requests use, and the numbers they write.
Numerals ==
    {<<<<"0">>, 0>>, <<<<"-1">>, 0 - 1>>, <<<<"1">>, 1>>, <<<<"2">>, 2>>,
     <<<<"3">>, 3>>, <<<<"20">>, 20>>, <<<<"150">>, 150>>}

\* strconv.Atoi.
Atoi(text) ==
    IF \E p \in Numerals : p[1] = text
    THEN [n |-> (CHOOSE p \in Numerals : p[1] = text)[2], ok |-> TRUE]
    ELSE [n |-> 0, ok |-> FALSE]

\* fmt.Sprintf("%d", n).
Sprintf(n) ==
    IF \E p \in Numerals : p[2] = n
    THEN (CHOOSE p \in Numerals : p[2] = n)[1]
    ELSE <<"?">>

\* c.DefaultQuery: the default when the parameter is absent.
DefaultQuery(value, default) == IF value = NoName THEN default ELSE value

parsePositiveInt(value, fallback) ==
    LET r == Atoi(TrimSpace(value))
    IN IF ~r.ok \/ r.n <= 0 THEN fallback ELSE r.n

\* Handler.list up to the call of the service: page, limit and ListOptions.
listOptions(q) ==
    LET page == parsePositiveInt(DefaultQuery(q.page, <<"1">>), defaultPage)
        parsed == parsePositiveInt(DefaultQuery(q.limit, Sprintf(defaultLimit)), defaultLimit)
        limit == IF parsed > maxLimit THEN maxLimit ELSE parsed
    IN [page |-> page, limit |-> limit,
        opts |-> [Limit |-> limit, Offset |-> (page - 1) * limit]]

\* Repository.List before its queries: the LIMIT and OFFSET of the page query.
listLimits(opts) ==
    [limit |-> IF opts.Limit <= 0 THEN 20 ELSE opts.Limit,
     offset |-> IF opts.Offset < 0 THEN 0 ELSE opts.Offset]

\* ORDER BY created_at DESC LIMIT limit OFFSET offset over the table.
pageOf(rows, limit, offset) ==
    LET newestFirst == [i \in 1..Len(rows) |-> rows[Len(rows) + 1 - i]]
        upto == IF offset + limit < Len(rows) THEN offset + limit ELSE Len(rows)
    IN SubSeq(newestFirst, offset + 1, upto)

\* Values of the page and limit query parameters: absent, empty, no
\* number, not positive, positive, blanks around, above maxLimit.
PageTexts == {NoName, <<"0">>, <<"2">>}
LimitTexts ==
    {NoName, <<>>, <<"x">>, <<"0">>, <<"-1">>, <<"1">>, <<" ", "3">>, <<"150">>}
ListQueries == [page : PageTexts, limit : LimitTexts]

\* The one body the requests that write during a List carry.
PlainCreateReq ==
    [service_name |-> <<"N">>, price |-> <<3>>, user_id |-> "u1",
     start_date |-> <<"2025", "-", "12">>, end_date |-> NoName]

\* Bodies of POST /subscriptions: each required field absent or given, a
\* start_date that is no date, an end_date absent, blank, no date or a month.
CreateReqs(ms) ==
    [service_name : {<<>>, <<"N", " ">>},
     price : {<<>>, <<3>>},
     user_id : {"u1", "bad"},
     start_date : {<<>>, <<"x">>} \cup {FormatYearMonth(t) : t \in MonthsOf(ms)}
                    \cup {FormatFullDate([ym |-> FirstMonth, d |-> MaxDay])},
     end_date : {NoName, <<" ">>, <<"x">>} \cup {FormatYearMonth(t) : t \in MonthsOf(ms)}]

\* Bodies of PATCH /subscriptions/:id: every field absent or given.
UpdateReqs(ms) ==
    [service_name : {NoName, <<" ">>},
     price : {<<>>, <<0 - 1>>, <<1>>},
     user_id : {""},
     start_date : {NoName, <<"x">>} \cup {FormatYearMonth(t) : t \in MonthsOf(ms)},
     end_date : {NoName, <<" ">>, <<"x">>} \cup {FormatYearMonth(t) : t \in MonthsOf(ms)}]

\* Values of the :id path parameter: ids of rows, one in capitals, an id
\* no row has, a text that is no UUID.
IdTexts == {"s1", "S1", "s2", "s3", "bad"}

----------------------------------------------------------------------------
(* Actions.                                                                *)

\* What a call records: the filter, the result, and the clock it ran at.
Called(op, filter, r) ==
    [NoCall EXCEPT !.op = op, !.filter = filter, !.total = r.total,
                   !.err = r.err, !.queries = r.queries, !.at = now]

\* No call is waiting for its answer: requests are served one at a time.
Idle == call.op = "none"

\* service.SumByPeriod -> Repository.SumByPeriod with filter.
CallSumByPeriod(filter, failed) ==
    /\ call' = Called("SumByPeriod", filter, SumByPeriod(store, filter, failed, now))
    /\ UNCHANGED <<store, now, last, listing>>

\* clampRange on the only row of the table and a period, then monthsBetween
\* on the pair it returns (kept in total).
CallClampRange(periodStart, periodEnd) ==
    /\ Len(store) = 1
    /\ LET r == clampRange(store[1].start_month, store[1].end_month,
                           periodStart, periodEnd, now)
       IN call' = [NoCall EXCEPT
                        !.op = "clampRange",
                        !.filter = [NoFilter EXCEPT !.StartMonth = periodStart,
                                                    !.EndMonth = periodEnd],
                        !.total = monthsBetween(r.start, r.end),
                        !.range = r, !.at = now]
    /\ UNCHANGED <<store, now, last, listing>>

\* The caller has its answer.
Return ==
    /\ call.op # "none"
    /\ call' = NoCall
    /\ UNCHANGED <<store, now, last, listing>>

\* Repository.SumByPeriod once more with the filter of the call before,
\* whose answer and clock are remembered in last.
RepeatSumByPeriod(failed) ==
    /\ call.op = "SumByPeriod"
    /\ call' = Called("SumByPeriod", call.filter,
                      SumByPeriod(store, call.filter, failed, now))
    /\ last' = [seen |-> TRUE, total |-> call.total, err |-> call.err, at |-> call.at]
    /\ UNCHANGED <<store, now, listing>>

\* SumByPeriod of the hand-written SQL repository.
CallPlainSumByPeriod(filter, failed) ==
    /\ call' = Called("PlainSumByPeriod", filter, PlainSumByPeriod(store, filter, failed))
    /\ UNCHANGED <<store, now, last, listing>>

\* monthsBetween on a pair of dates (kept in range, the count in total).
CallMonthsBetween(start, end) ==
    /\ call' = [NoCall EXCEPT !.op = "monthsBetween",
                              !.range = [start |-> start, end |-> end, ok |-> TRUE],
                              !.total = monthsBetween(start, end), !.at = now]
    /\ UNCHANGED <<store, now, last, listing>>

\* GET /subscriptions/summary with query q: Handler.summary to the response.
CallSummary(q, failed) ==
    /\ LET r == summary(store, q, failed, now)
       IN call' = [NoCall EXCEPT !.op = "summary", !.filter = r.filter,
                                 !.total = r.result.total, !.err = r.result.err,
                                 !.queries = r.result.queries, !.at = now,
                                 !.query = q, !.resp = r.resp]
    /\ UNCHANGED <<store, now, last, listing>>

\* parseMonth on a text: the text in query.start, the month in range, the
\* error in resp.error.
CallParseMonth(value) ==
    /\ LET r == parseMonth(value)
       IN call' = [NoCall EXCEPT !.op = "parseMonth",
                                 !.query = [NoQuery EXCEPT !.start = value],
                                 !.range = [start |-> r.t, end |-> r.t, ok |-> r.err = ""],
                                 !.err = r.err # "",
                                 !.resp = [NoResp EXCEPT !.error = r.err],
                                 !.at = now]
    /\ UNCHANGED <<store, now, last, listing>>

\* normalizeMonth on a date: the date in range.start, the month in range.end.
CallNormalizeMonth(t) ==
    /\ call' = [NoCall EXCEPT !.op = "normalizeMonth",
                              !.range = [start |-> t, end |-> normalizeMonth(t), ok |-> TRUE],
                              !.at = now]
    /\ UNCHANGED <<store, now, last, listing>>

\* What a write request records: the request, the parameters handed to
\* the service, whether the store was called, the response, the table
\* before it.
Written(op, id, req, r) ==
    [NoCall EXCEPT !.op = op, !.id = id, !.req = req, !.params = r.params,
                   !.called = r.called, !.resp = r.resp, !.before = store, !.at = now]

\* POST /subscriptions: Handler.create through Repository.Create.
CallCreate(req, failed, newID) ==
    /\ Len(store) < MaxStored
    /\ newID \notin IdsOf(store)
    /\ LET r == create(store, req, failed, newID)
       IN /\ call' = Written("create", "", req, r)
          /\ store' = r.rows
    /\ UNCHANGED <<now, last, listing>>

\* PATCH /subscriptions/:id: Handler.update through Repository.Update.
CallUpdate(id, req, failed) ==
    /\ LET r == update(store, id, req, failed)
       IN /\ call' = Written("update", id, req, r)
          /\ store' = r.rows
    /\ UNCHANGED <<now, last, listing>>

\* DELETE /subscriptions/:id: Handler.delete through Repository.Delete.
CallDelete(id, failed) ==
    /\ LET r == delete(store, id, failed)
       IN /\ call' = Written("delete", id, NoReq, r)
          /\ store' = r.rows
    /\ UNCHANGED <<now, last, listing>>

\* GET /subscriptions, first part: Handler.list to Repository.List's page
\* query.  read keeps the table the page was read from.
ListPage(q, failed) ==
    /\ listing.pc = "idle"
    /\ LET o == listOptions(q)
           l == listLimits(o.opts)
           asked == [NoListing EXCEPT !.query = q, !.page = o.page, !.limit = o.limit,
                                      !.opts = o.opts, !.sql = l, !.read = store]
       IN listing' = IF failed
                     THEN [asked EXCEPT !.pc = "done",
                                        !.status = StatusInternalServerError]
                     ELSE [asked EXCEPT !.pc = "count",
                                        !.items = pageOf(store, l.limit, l.offset)]
    /\ UNCHANGED <<store, now, call, last>>

\* GET /subscriptions, second part: the count query and the response.
ListCount(failed) ==
    /\ listing.pc = "count"
    /\ listing' = IF failed
                  THEN [listing EXCEPT !.pc = "done", !.items = <<>>,
                                       !.status = StatusInternalServerError]
                  ELSE [listing EXCEPT !.pc = "done", !.total = Len(store),
                                       !.status = StatusOK]
    /\ UNCHANGED <<store, now, call, last>>

\* The client of the List request has its answer.
ListReturn ==
    /\ listing.pc = "done"
    /\ listing' = NoListing
    /\ UNCHANGED <<store, now, call, last>>

\* The clock moves on by a day, into the next month after the last day.
Tick(ms) ==
    /\ now' = IF now.d < MaxDay THEN [now EXCEPT !.d = now.d + 1]
              ELSE [ym |-> now.ym + 1, d |-> 1]
    /\ now'.ym \in ms
    /\ UNCHANGED <<store, call, last, listing>>

----------------
(* Specifications.                                                         *)

\* Tables of up to MaxSubs rows, the filters Handler.summary passes, any date.
Init ==
    /\ store \in Tables(Window(MaxSumMonths), MaxSubs)
    /\ now \in Dates(Window(MaxSumMonths))
    /\ call = NoCall
    /\ last = NoLast
    /\ listing = NoListing

Next ==
    \/ /\ Idle
       /\ \E filter \in Filters(MonthsOf(Window(MaxSumMonths))), failed \in BOOLEAN :
                CallSumByPeriod(filter, failed)
    \/ Return

Spec == Init /\ [][Next]_vars

\* One row (or none); period bounds with any day of the month.
InitOne ==
    /\ store \in Tables(Window(MaxMonths), 1)
    /\ now \in Dates(Window(MaxMonths))
    /\ call = NoCall
    /\ last = NoLast
    /\ listing = NoListing

NextOne ==
    \/ /\ Idle
       /\ \E filter \in Filters(Dates(Window(MaxMonths))), failed \in BOOLEAN :
                CallSumByPeriod(filter, failed)
    \/ /\ Idle
       /\ \E periodStart, periodEnd \in Dates(Window(MaxMonths)) \cup {NULL} :
                CallClampRange(periodStart, periodEnd)
    \/ Return

SpecOne == InitOne /\ [][NextOne]_vars

\* One row, a running clock, a call and its repetitions with the same filter.
InitClock ==
    /\ store \in Tables(Window(MaxClockMonths), 1)
    /\ now = [ym |-> FirstMonth, d |-> 1]
    /\ call = NoCall
    /\ last = NoLast
    /\ listing = NoListing

NextClock ==
    \/ /\ Idle
       /\ \E filter \in Filters(MonthsOf(Window(MaxClockMonths))), failed \in BOOLEAN :
                CallSumByPeriod(filter, failed)
    \/ \E failed \in BOOLEAN : RepeatSumByPeriod(failed)
    \/ Tick(Window(MaxClockMonths))

SpecClock == InitClock /\ [][NextClock]_vars

\* The hand-written SQL repository over the same tables.
NextPlain ==
    \/ /\ Idle
       /\ \E filter \in Filters(MonthsOf(Window(MaxSumMonths))), failed \in BOOLEAN :
                CallPlainSumByPeriod(filter, failed)
    \/ Return

SpecPlain == Init /\ [][NextPlain]_vars

\* Tables of up to MaxSubs rows over a short window, to be taken apart and
\* put together.
InitPair ==
    /\ store \in Tables(Window(MaxPairMonths), MaxSubs)
    /\ now \in Dates(Window(MaxPairMonths))
    /\ call = NoCall
    /\ last = NoLast
    /\ listing = NoListing

NextPair ==
    \/ /\ Idle
       /\ \E filter \in Filters(MonthsOf(Window(MaxPairMonths))), failed \in BOOLEAN :
                CallSumByPeriod(filter, failed)
    \/ Return

SpecPair == InitPair /\ [][NextPair]_vars

\* The helpers and the query as functions of their arguments: one row that
\* may end before it starts, any period, any pair of dates.
InitPure ==
    /\ store \in [1..1 -> AnyRows(Window(MaxMonths))]
    /\ now \in Dates(Window(MaxMonths))
    /\ call = NoCall
    /\ last = NoLast
    /\ listing = NoListing

NextPure ==
    \/ /\ Idle
       /\ \E filter \in Periods(Dates(Window(MaxMonths))), failed \in BOOLEAN :
                CallSumByPeriod(filter, failed)
    \/ /\ Idle
       /\ \E periodStart, periodEnd \in Dates(Window(MaxMonths)) \cup {NULL} :
                CallClampRange(periodStart, periodEnd)
    \/ /\ Idle
       /\ \E start, end \in Dates(Window(MaxMonths)) : CallMonthsBetween(start, end)
    \/ Return

SpecPure == InitPure /\ [][NextPure]_vars

\* The summary endpoint over a table of one row or none.
InitSummary ==
    /\ store \in Tables(Window(MaxQueryMonths), 1)
    /\ now \in Dates(Window(MaxQueryMonths))
    /\ call = NoCall
    /\ last = NoLast
    /\ listing = NoListing

NextSummary ==
    \/ /\ Idle
       /\ \E q \in Queries(Window(MaxQueryMonths)), failed \in BOOLEAN :
                CallSummary(q, failed)
    \/ Return

SpecSummary == InitSummary /\ [][NextSummary]_vars

\* parseMonth and normalizeMonth as functions of their argument, over a year
\* of months.
InitMonth ==
    /\ store = <<>>
    /\ now = [ym |-> FirstMonth, d |-> 1]
    /\ call = NoCall
    /\ last = NoLast
    /\ listing = NoListing

NextMonth ==
    \/ /\ Idle
       /\ \E value \in MonthTexts(Window(MaxTextMonths)) : CallParseMonth(value)
    \/ /\ Idle
       /\ \E t \in Dates(Window(MaxTextMonths)) : CallNormalizeMonth(t)
    \/ Return

SpecMonth == InitMonth /\ [][NextMonth]_vars

\* Create, update and delete requests, one at a time, on a table that
\* starts empty.
InitWrite ==
    /\ store = <<>>
    /\ now = [ym |-> FirstMonth, d |-> 1]
    /\ call = NoCall
    /\ last = NoLast
    /\ listing = NoListing

NextWrite ==
    \/ /\ Idle
       /\ \E req \in CreateReqs(Window(MaxWriteMonths)), failed \in BOOLEAN, newID \in Ids :
                CallCreate(req, failed, newID)
    \/ /\ Idle
       /\ \E id \in IdTexts, req \in UpdateReqs(Window(MaxWriteMonths)), failed \in BOOLEAN :
                CallUpdate(id, req, failed)
    \/ /\ Idle
       /\ \E id \in IdTexts, failed \in BOOLEAN : CallDelete(id, failed)
    \/ Return

SpecWrite == InitWrite /\ [][NextWrite]_vars

\* A List request next to create and delete requests of other clients:
\* these are served while the List is between its two queries.
NextList ==
    \/ \E q \in ListQueries, failed \in BOOLEAN : ListPage(q, failed)
    \/ \E failed \in BOOLEAN : ListCount(failed)
    \/ ListReturn
    \/ /\ Idle
       /\ \E newID \in Ids : CallCreate(PlainCreateReq, FALSE, newID)
    \/ /\ Idle
       /\ \E id \in Ids : CallDelete(id, FALSE)
    \/ Return

SpecList == InitWrite /\ [][NextList]_vars

----------------------------------------------------------------------------
(* The aggregation as the specification words it: months, the clamp of a   *)
(* subscription against a period, the span of a range, the filter.         *)

\* The calendar month a date falls in (NULL for an absent date).
MonthOf(t) == IF t = NULL THEN NULL ELSE [ym |-> t.ym, d |-> 1]

MaxOf(a, b) == IF a.ym >= b.ym THEN a ELSE b
MinOf(a, b) == IF a.ym <= b.ym THEN a ELSE b

\* a ?? b
OrElse(a, b) == IF a # NULL THEN a ELSE b

EffectiveStart(subStart, qStart) ==
    IF qStart # NULL THEN MaxOf(subStart, qStart) ELSE subStart

EffectiveEnd(subEnd, qEnd, nowMonth) ==
    MinOf(OrElse(subEnd, OrElse(qEnd, nowMonth)), OrElse(qEnd, OrElse(subEnd, nowMonth)))

\* The inclusive count of calendar months from a to b (0 when b is before a).
Span(a, b) == Cardinality(a.ym .. b.ym)

EqualFold(a, b) ==
    /\ Len(a) = Len(b)
    /\ \A i \in 1..Len(a) : ToLowerChar(a[i]) = ToLowerChar(b[i])

\* The filter evaluator: owner equality, case-insensitive name equality
\* against the trimmed filter value, a blank value being no filter.
Passes(s, f) ==
    /\ (f.UserID = NoUser \/ s.user_id = f.UserID)
    /\ \/ f.ServiceName = NoName
       \/ TrimSpace(f.ServiceName) = <<>>
       \/ EqualFold(s.service_name, TrimSpace(f.ServiceName))

\* price * span of the clamped range, 0 for an empty clamp.
Clamped(s, f, nowMonth) ==
    LET es == EffectiveStart(s.start_month, MonthOf(f.StartMonth))
        ee == EffectiveEnd(s.end_month, MonthOf(f.EndMonth), nowMonth)
    IN IF ee.ym < es.ym THEN 0 ELSE s.price_rub * Span(es, ee)

Contribution(s, f, nowMonth) == IF Passes(s, f) THEN Clamped(s, f, nowMonth) ELSE 0

RECURSIVE TotalUpTo(_, _, _, _)
TotalUpTo(rows, n, f, nowMonth) ==
    IF n = 0 THEN 0
    ELSE TotalUpTo(rows, n - 1, f, nowMonth) + Contribution(rows[n], f, nowMonth)

Total(rows, f, nowMonth) == TotalUpTo(rows, Len(rows), f, nowMonth)

\* The total Repository.SumByPeriod returns for filter f when the query succeeds.
SumOf(f) == SumByPeriod(store, f, FALSE, now).total

Summed == call.op = "SumByPeriod" /\ ~call.err
ClampedOne == call.op = "clampRange" /\ Len(store) = 1

----------------------------------------------------------------------------
(* C1: SumByPeriod returns exactly the sum, over the subscriptions passing *)
(* the owner and service-name filter, of price * span(effective start,     *)
(* effective end) for a non-empty clamp and 0 for an empty one.            *)
C1_SumOfPriceTimesSpan ==
    Summed => call.total = Total(store, call.filter, MonthOf(now))

\* Two rows pass the filter, one clamps to a range over the year boundary,
\* the other to nothing, and a third case: a filter is set.
C1_Witness ==
    /\ Summed
    /\ Len(store) = 2
    /\ call.filter.UserID # NoUser
    /\ call.filter.ServiceName # NoName
    /\ Passes(store[1], call.filter) /\ Passes(store[2], call.filter)
    /\ Clamped(store[1], call.filter, MonthOf(now)) >= 2 * store[1].price_rub
    /\ Clamped(store[2], call.filter, MonthOf(now)) = 0
    /\ call.total > 0

----------------------------------------------------------------------------
(* C2: the clamper's effective start is max(subStart, qStart) when qStart  *)
(* is present and subStart otherwise, and its effective end is             *)
(* min(subEnd ?? qEnd ?? now, qEnd ?? subEnd ?? now), now being the        *)
(* current month; for clampRange and for the ranges of the aggregate query *)
(* (whose eff_end is a date of that month).                                *)
C2_ClampBounds ==
    ClampedOne =>
        LET s == store[1]
            f == call.filter
            es == EffectiveStart(s.start_month, MonthOf(f.StartMonth))
            ee == EffectiveEnd(s.end_month, MonthOf(f.EndMonth), MonthOf(now))
        IN /\ clampStart(s.start_month, f.StartMonth) = es
           /\ clampEnd(s.end_month, f.EndMonth, now) = ee
           /\ (call.range.ok => call.range.start = es /\ call.range.end = ee)
           /\ eff_start(s, sumStart(f)) = es
           /\ MonthOf(eff_end(s, sumEnd(f), now)) = ee

\* A period that starts after the subscription and ends before it does.
C2_Witness ==
    /\ ClampedOne
    /\ call.range.ok
    /\ call.filter.StartMonth # NULL /\ call.filter.EndMonth # NULL
    /\ store[1].end_month # NULL
    /\ store[1].start_month.ym < call.filter.StartMonth.ym
    /\ call.filter.EndMonth.ym < store[1].end_month.ym
    /\ call.range.start = MonthOf(call.filter.StartMonth)
    /\ call.range.end = MonthOf(call.filter.EndMonth)

----------------------------------------------------------------------------
(* C3: with both bounds of the period present, replacing the start by an   *)
(* earlier month or the end by a later month never decreases the total     *)
(* SumByPeriod returns (same table, filter and clock).                     *)
C3_WiderPeriodNotLess ==
    (Summed /\ call.filter.StartMonth # NULL /\ call.filter.EndMonth # NULL) =>
        \A t \in Dates(Window(MaxMonths)) :
            /\ (t.ym < call.filter.StartMonth.ym =>
                    SumOf([call.filter EXCEPT !.StartMonth = t]) >= call.total)
            /\ (t.ym > call.filter.EndMonth.ym =>
                    SumOf([call.filter EXCEPT !.EndMonth = t]) >= call.total)

\* A non-zero total that an earlier start and a later end both raise.
C3_Witness ==
    /\ Summed
    /\ call.filter.StartMonth # NULL /\ call.filter.EndMonth # NULL
    /\ call.total > 0
    /\ \E t \in Dates(Window(MaxMonths)) :
            /\ t.ym < call.filter.StartMonth.ym
            /\ SumOf([call.filter EXCEPT !.StartMonth = t]) > call.total
    /\ \E t \in Dates(Window(MaxMonths)) :
            /\ t.ym > call.filter.EndMonth.ym
            /\ SumOf([call.filter EXCEPT !.EndMonth = t]) > call.total

----------------------------------------------------------------------------
(* C4 as stated: for every period, the total with the start bound removed, *)
(* or with the end bound removed, is never smaller than the total for the  *)
(* period itself.                                                          *)
C4_AsStated ==
    Summed =>
        /\ SumOf([call.filter EXCEPT !.StartMonth = NULL]) >= call.total
        /\ SumOf([call.filter EXCEPT !.EndMonth = NULL]) >= call.total

(* C4: removing the start bound never decreases the total; removing the    *)
(* end bound never decreases it when the period's end month is not later   *)
(* than the current month, or when no stored subscription is open-ended.   *)
C4_RemovedBoundNotLess ==
    Summed =>
        /\ SumOf([call.filter EXCEPT !.StartMonth = NULL]) >= call.total
        /\ (\/ call.filter.EndMonth = NULL
            \/ call.filter.EndMonth.ym <= now.ym
            \/ \A i \in 1..Len(store) : store[i].end_month # NULL)
                => SumOf([call.filter EXCEPT !.EndMonth = NULL]) >= call.total

\* An open-ended subscription, a period that ends before the current
\* month, and a total that grows with either bound removed.
C4_Witness ==
    /\ Summed
    /\ Len(store) = 1 /\ store[1].end_month = NULL
    /\ call.filter.StartMonth # NULL /\ call.filter.EndMonth # NULL
    /\ call.filter.EndMonth.ym < now.ym
    /\ call.total > 0
    /\ SumOf([call.filter EXCEPT !.StartMonth = NULL]) > call.total
    /\ SumOf([call.filter EXCEPT !.EndMonth = NULL]) > call.total

----------------------------------------------------------------------------
(* C5 as stated: when the period has no end month, the effective end of    *)
(* every clamped range is no later than the current month, whether or not  *)
(* the subscription has an end month.                                      *)
C5_AsStated ==
    (ClampedOne /\ call.filter.EndMonth = NULL) =>
        /\ (call.range.ok => call.range.end.ym <= now.ym)
        /\ (rangeSelected(store[1], sumStart(call.filter), NULL, NoUser, NoName, now)
                => eff_end(store[1], NULL, now).ym <= now.ym)

(* C5: when the period has no end month, the effective end of a clamped    *)
(* range is the subscription's end month when it has one and the current   *)
(* month otherwise; so it is no later than the current month for every     *)
(* subscription with no end month or with an end month not after it.       *)
C5_OpenPeriodEnd ==
    (ClampedOne /\ call.filter.EndMonth = NULL) =>
        LET s == store[1]
            expected == IF s.end_month # NULL THEN s.end_month ELSE MonthOf(now)
        IN /\ (call.range.ok => call.range.end = expected)
           /\ (rangeSelected(s, sumStart(call.filter), NULL, NoUser, NoName, now)
                    => MonthOf(eff_end(s, NULL, now)) = expected)
           /\ ((s.end_month = NULL \/ s.end_month.ym <= now.ym) =>
                    /\ (call.range.ok => call.range.end.ym <= now.ym)
                    /\ eff_end(s, NULL, now).ym <= now.ym)

\* An open period and an open-ended subscription, clamped at the current
\* month, on a day that is not the first of the month.
C5_Witness ==
    /\ ClampedOne
    /\ call.filter.EndMonth = NULL
    /\ store[1].end_month = NULL
    /\ now.d > 1
    /\ call.range.ok
    /\ call.range.end = MonthOf(now)
    /\ call.range.start.ym < call.range.end.ym

----------------------------------------------------------------------------
(* C6 as stated: a subscription with no end month has an effective end no  *)
(* later than the current month, for every period, with or without an end. *)
C6_AsStated ==
    (ClampedOne /\ store[1].end_month = NULL) =>
        /\ (call.range.ok => call.range.end.ym <= now.ym)
        /\ (rangeSelected(store[1], sumStart(call.filter), sumEnd(call.filter),
                          NoUser, NoName, now)
                => eff_end(store[1], sumEnd(call.filter), now).ym <= now.ym)

(* C6: a subscription with no end month has as effective end the period's  *)
(* end month when the period has one and the current month otherwise; so   *)
(* it is billed no further than the current month for every period with no *)
(* end month or with an end month not after the current month.             *)
C6_OpenSubscriptionEnd ==
    (ClampedOne /\ store[1].end_month = NULL) =>
        LET s == store[1]
            f == call.filter
            expected == IF f.EndMonth # NULL THEN MonthOf(f.EndMonth) ELSE MonthOf(now)
        IN /\ (call.range.ok => call.range.end = expected)
           /\ (rangeSelected(s, sumStart(f), sumEnd(f), NoUser, NoName, now)
                    => MonthOf(eff_end(s, sumEnd(f), now)) = expected)
           /\ ((f.EndMonth = NULL \/ f.EndMonth.ym <= now.ym) =>
                    /\ (call.range.ok => call.range.end.ym <= now.ym)
                    /\ eff_end(s, sumEnd(f), now).ym <= now.ym)

\* An open-ended subscription clamped at a period end before the current month.
C6_Witness ==
    /\ ClampedOne
    /\ store[1].end_month = NULL
    /\ call.filter.EndMonth # NULL
    /\ call.filter.EndMonth.ym < now.ym
    /\ call.range.ok
    /\ call.range.end = MonthOf(call.filter.EndMonth)

----------------------------------------------------------------------------
(* C7: for a subscription with no end month and a period with no end       *)
(* month, the effective upper bound is the current calendar month,         *)
(* inclusive, and the contribution is price * span(effective start,        *)
(* current month).                                                         *)
C7_OpenBothEndsAtNow ==
    (Len(store) = 1 /\ store[1].end_month = NULL /\ call.filter.EndMonth = NULL) =>
        LET s == store[1]
            f == call.filter
            es == EffectiveStart(s.start_month, MonthOf(f.StartMonth))
        IN /\ call.op = "clampRange" =>
                /\ clampEnd(s.end_month, f.EndMonth, now) = MonthOf(now)
                /\ MonthOf(eff_end(s, sumEnd(f), now)) = MonthOf(now)
                /\ (call.range.ok => call.range.end = MonthOf(now))
                /\ (call.range.ok => call.total = Span(es, MonthOf(now)))
           /\ (Summed /\ Passes(s, f)) =>
                call.total = s.price_rub * Span(es, MonthOf(now))

\* Three months billed up to the current month, called on its second day.
C7_Witness ==
    /\ Summed
    /\ Len(store) = 1 /\ store[1].end_month = NULL
    /\ call.filter.EndMonth = NULL
    /\ Passes(store[1], call.filter)
    /\ now.d > 1
    /\ call.total = 3 * store[1].price_rub

----------------------------------------------------------------------------
(* C8 as stated: two SumByPeriod calls with the same table, filter and     *)
(* period return the same total.                                           *)
C8_AsStated ==
    (Summed /\ last.seen /\ ~last.err) => call.total = last.total

(* C8: two SumByPeriod calls with the same table, filter and period made   *)
(* in the same current month return the same total: the total is a         *)
(* function of the table, the filter, the period and the current month.    *)
C8_SameMonthSameTotal ==
    (Summed /\ last.seen /\ ~last.err) =>
        /\ (call.at.ym = last.at.ym => call.total = last.total)
        /\ call.total = Total(store, call.filter, MonthOf(call.at))
        /\ last.total = Total(store, call.filter, MonthOf(last.at))

\* The second call comes a day after the first, in the same month.
C8_Witness ==
    /\ Summed /\ last.seen /\ ~last.err
    /\ call.at.ym = last.at.ym
    /\ call.at # last.at
    /\ call.filter.EndMonth = NULL
    /\ call.total > 0

----------------------------------------------------------------------------
(* C9: the aggregate query and the helpers agree: a subscription is        *)
(* selected by the query exactly when clampRange reports an overlap, and   *)
(* the term it adds to the SUM is price * monthsBetween of that range.     *)
C9_QueryAgreesWithHelpers ==
    ClampedOne =>
        LET s == store[1]
            f == call.filter
        IN /\ rangeSelected(s, sumStart(f), sumEnd(f), NoUser, NoName, now) = call.range.ok
           /\ rangeAmount(s, sumStart(f), sumEnd(f), NoUser, NoName, now)
                = (IF call.range.ok THEN s.price_rub * call.total ELSE 0)
           /\ SumOf(f) = (IF call.range.ok THEN s.price_rub * call.total ELSE 0)

\* A range over the year boundary that ends at CURRENT_DATE, not on the
\* first day of the month.
C9_Witness ==
    /\ ClampedOne
    /\ call.range.ok
    /\ store[1].end_month = NULL /\ call.filter.EndMonth = NULL
    /\ now.d > 1
    /\ Year(call.range.start) < Year(call.range.end)
    /\ call.total >= 2

----------------------------------------------------------------------------
(* C10: SumByPeriod of the hand-written SQL repository returns the sum of  *)
(* price * span over the clamped ranges.                                   *)
C10_PlainSumIsPriceTimesSpan ==
    (call.op = "PlainSumByPeriod" /\ ~call.err) =>
        call.total = Total(store, call.filter, MonthOf(now))

----------------------------------------------------------------------------
\* A row of user u1 and service "N", and a filter that is a period only.
RowOf(price, start, end) ==
    [service_name |-> <<"N">>, price_rub |-> price, user_id |-> "u1",
     start_month |-> start, end_month |-> end]

Period(start, end) == [NoFilter EXCEPT !.StartMonth = start, !.EndMonth = end]

(* C11: clampRange reports no overlap exactly when the effective end is    *)
(* before the effective start, and otherwise returns the inclusive range   *)
(* (effective start, effective end); the query selects the row in exactly  *)
(* the same cases, so a subscription wholly outside the period adds 0:     *)
(* price 300, start = end = 2025-05, period 2025-01..2025-03 gives 0.      *)
C11_NoOverlapIffEndBeforeStart ==
    /\ ClampedOne =>
        LET s == store[1]
            f == call.filter
            es == EffectiveStart(s.start_month, MonthOf(f.StartMonth))
            ee == EffectiveEnd(s.end_month, MonthOf(f.EndMonth), MonthOf(now))
        IN /\ call.range.ok = ~(ee.ym < es.ym)
           /\ call.range = (IF ee.ym < es.ym THEN NoRange
                            ELSE [start |-> es, end |-> ee, ok |-> TRUE])
           /\ rangeSelected(s, sumStart(f), sumEnd(f), NoUser, NoName, now)
                = ~(ee.ym < es.ym)
           /\ (ee.ym < es.ym => SumOf(f) = 0)
    /\ ~clampRange(Date(2025, 5, 1), Date(2025, 5, 1),
                   Date(2025, 1, 1), Date(2025, 3, 1), now).ok
    /\ SumByPeriod(<<RowOf(300, Date(2025, 5, 1), Date(2025, 5, 1))>>,
                   Period(Date(2025, 1, 1), Date(2025, 3, 1)), FALSE, now).total = 0

\* A subscription of one month, after the end of the period.
C11_Witness ==
    /\ ClampedOne
    /\ ~call.range.ok
    /\ store[1].end_month = store[1].start_month
    /\ call.filter.StartMonth # NULL /\ call.filter.EndMonth # NULL
    /\ call.filter.StartMonth.ym < call.filter.EndMonth.ym
    /\ call.filter.EndMonth.ym < store[1].start_month.ym
    /\ SumOf(call.filter) = 0

----------------------------------------------------------------------------
\* The subscription ends in a month before the one it starts in.
EndsBeforeStart(s) == s.end_month # NULL /\ s.end_month.ym < s.start_month.ym

\* The period ends in a month before the one it starts in.
PeriodEndsBeforeStart(f) ==
    f.StartMonth # NULL /\ f.EndMonth # NULL /\ f.EndMonth.ym < f.StartMonth.ym

(* C12: a subscription whose end month is before its start month adds 0    *)
(* for every period, and a period whose end is before its start gives      *)
(* total 0 for every table; SumByPeriod then returns that total with no    *)
(* error of its own (an error only when the database fails), and           *)
(* clampRange reports no overlap.                                          *)
C12_DegenerateRangesAddNothing ==
    /\ (call.op = "SumByPeriod" /\ Len(store) = 1
            /\ (EndsBeforeStart(store[1]) \/ PeriodEndsBeforeStart(call.filter))) =>
            /\ call.total = 0
            /\ call.err = call.queries[1]
    /\ (Summed /\ Len(store) = 1 /\ PeriodEndsBeforeStart(call.filter)) =>
            \A r \in AnyRows(Window(MaxMonths)) :
                SumByPeriod(store \o <<r>>, call.filter, FALSE, now)
                    = [total |-> 0, err |-> FALSE, queries |-> <<FALSE>>]
    /\ (ClampedOne /\ (EndsBeforeStart(store[1]) \/ PeriodEndsBeforeStart(call.filter))) =>
            call.range = NoRange

\* A period that ends before it starts, inside the lifetime of the row.
C12_Witness ==
    /\ Summed
    /\ Len(store) = 1
    /\ ~EndsBeforeStart(store[1])
    /\ PeriodEndsBeforeStart(call.filter)
    /\ store[1].start_month.ym <= call.filter.EndMonth.ym
    /\ (store[1].end_month = NULL \/ store[1].end_month.ym >= call.filter.StartMonth.ym)
    /\ call.total = 0

----------------------------------------------------------------------------
\* The subscription starts in the month the period ends in, and neither its
\* own end nor the start of the period excludes that month.
StartsAtPeriodEnd(s, f) ==
    /\ f.EndMonth # NULL
    /\ s.start_month.ym = f.EndMonth.ym
    /\ (s.end_month # NULL => s.end_month.ym >= s.start_month.ym)
    /\ (f.StartMonth # NULL => f.StartMonth.ym <= f.EndMonth.ym)

(* C13: when the subscription's start month equals the period's end month  *)
(* (and the subscription's end and the period's start do not exclude that  *)
(* month), the clamp is that one month, its span is 1, and the             *)
(* subscription adds exactly its monthly price.                            *)
C13_StartAtPeriodEndCountsOneMonth ==
    /\ (ClampedOne /\ StartsAtPeriodEnd(store[1], call.filter)) =>
            /\ call.range = [start |-> MonthOf(call.filter.EndMonth),
                             end |-> MonthOf(call.filter.EndMonth), ok |-> TRUE]
            /\ call.total = 1
            /\ datePartMonths(eff_start(store[1], sumStart(call.filter)),
                              eff_end(store[1], sumEnd(call.filter), now)) = 1
    /\ (Summed /\ Len(store) = 1 /\ StartsAtPeriodEnd(store[1], call.filter)) =>
            call.total = store[1].price_rub

\* A subscription that runs on after the period, which began a month before it.
C13_Witness ==
    /\ Summed
    /\ Len(store) = 1
    /\ StartsAtPeriodEnd(store[1], call.filter)
    /\ call.filter.StartMonth # NULL
    /\ call.filter.StartMonth.ym < call.filter.EndMonth.ym
    /\ store[1].end_month # NULL
    /\ store[1].end_month.ym > store[1].start_month.ym
    /\ store[1].price_rub = 3
    /\ call.total = 3

----------------------------------------------------------------------------
(* C14: monthsBetween is the inclusive count of calendar months: for an    *)
(* end not before the start it is yearsDiff * 12 + monthsDiff + 1, so 1    *)
(* for a month and itself, 3 for Jan-2025..Mar-2025, 2 for                 *)
(* Dec-2025..Jan-2026; for an end before the start it is 0, never          *)
(* negative.  The month arithmetic of the query gives the same count for   *)
(* an end not before the start, and the total is never negative.           *)
C14_SpanIsInclusiveMonthCount ==
    /\ call.op = "monthsBetween" =>
        LET a == call.range.start
            b == call.range.end
        IN /\ call.total = Span(a, b)
           /\ call.total >= 0
           /\ (a.ym = b.ym => call.total = 1)
           /\ (b.ym < a.ym => call.total = 0)
           /\ (b.ym >= a.ym =>
                    /\ call.total = (Year(b) - Year(a)) * 12 + (Month(b) - Month(a)) + 1
                    /\ datePartMonths(a, b) = call.total)
    /\ call.op = "SumByPeriod" => call.total >= 0
    /\ monthsBetween(Date(2025, 1, 1), Date(2025, 3, 1)) = 3
    /\ monthsBetween(Date(2025, 12, 1), Date(2026, 1, 1)) = 2
    /\ monthsBetween(Date(2025, 3, 1), Date(2025, 1, 1)) = 0

\* December to January, from a later day of the month to an earlier one.
C14_Witness ==
    /\ call.op = "monthsBetween"
    /\ Year(call.range.start) < Year(call.range.end)
    /\ call.range.start.d > call.range.end.d
    /\ call.total = 2

----------------------------------------------------------------------------
\* An open-ended subscription that started no later than the period, and a
\* period that ends no later than the current month.
OpenAcrossPeriod(s, f) ==
    /\ s.end_month = NULL
    /\ f.StartMonth # NULL /\ f.EndMonth # NULL
    /\ s.start_month.ym <= f.StartMonth.ym
    /\ f.EndMonth.ym <= now.ym

(* C15: an open-ended subscription that started at or before the period's  *)
(* start, over a period that ends no later than the current month, adds    *)
(* price * span(period start, period end); price 499 from 2025-01 with no  *)
(* end, period 2025-01..2025-03, current month 2025-06: clamp              *)
(* [2025-01, 2025-03], span 3, total 1497.                                 *)
C15_OpenSubscriptionBilledOverPeriod ==
    /\ (Summed /\ Len(store) = 1 /\ OpenAcrossPeriod(store[1], call.filter)) =>
            call.total = store[1].price_rub
                * Span(MonthOf(call.filter.StartMonth), MonthOf(call.filter.EndMonth))
    /\ (ClampedOne /\ OpenAcrossPeriod(store[1], call.filter)
            /\ call.filter.StartMonth.ym <= call.filter.EndMonth.ym) =>
            /\ call.range = [start |-> MonthOf(call.filter.StartMonth),
                             end |-> MonthOf(call.filter.EndMonth), ok |-> TRUE]
            /\ call.total = Span(call.range.start, call.range.end)
    /\ clampRange(Date(2025, 1, 1), NULL, Date(2025, 1, 1), Date(2025, 3, 1),
                  Date(2025, 6, 15))
            = [start |-> Date(2025, 1, 1), end |-> Date(2025, 3, 1), ok |-> TRUE]
    /\ monthsBetween(Date(2025, 1, 1), Date(2025, 3, 1)) = 3
    /\ SumByPeriod(<<RowOf(499, Date(2025, 1, 1), NULL)>>,
                   Period(Date(2025, 1, 1), Date(2025, 3, 1)), FALSE,
                   Date(2025, 6, 15)).total = 1497

\* Two months of a period that ended before the current month.
C15_Witness ==
    /\ Summed
    /\ Len(store) = 1
    /\ OpenAcrossPeriod(store[1], call.filter)
    /\ call.filter.StartMonth.ym < call.filter.EndMonth.ym
    /\ call.filter.EndMonth.ym < now.ym
    /\ store[1].price_rub = 3
    /\ call.total = 6

----------------------------------------------------------------------------
\* The total SumByPeriod returns for filter f over the table rows.
SumOver(rows, f) == SumByPeriod(rows, f, FALSE, now).total

(* C16: for a fixed filter, period and clock, the total over a table that  *)
(* is two tables put together is the sum of the totals over each; each row *)
(* adds its own price * span, and a row added to the table leaves what the *)
(* others add as it was (any row added to a table of at most one row, a    *)
(* second subscription with the fields of a stored one added to any        *)
(* table).                                                                 *)
C16_TotalIsAdditive ==
    Summed =>
        /\ \A k \in 0..Len(store) :
                call.total = SumOver(SubSeq(store, 1, k), call.filter)
                                + SumOver(SubSeq(store, k + 1, Len(store)), call.filter)
        /\ \A i \in 1..Len(store) :
                SumOver(<<store[i]>>, call.filter)
                    = Contribution(store[i], call.filter, MonthOf(now))
        /\ Len(store) <= 1 =>
                \A r \in Rows(Window(MaxPairMonths)) :
                    /\ SumOver(store \o <<r>>, call.filter)
                            = call.total + SumOver(<<r>>, call.filter)
                    /\ SumOver(<<r>> \o store, call.filter)
                            = call.total + SumOver(<<r>>, call.filter)
        /\ \A i \in 1..Len(store) :
                SumOver(store \o <<store[i]>>, call.filter)
                    = call.total + SumOver(<<store[i]>>, call.filter)

\* Two subscriptions of one owner over the same period, each adding its own
\* price times the months of the period.
C16_Witness ==
    /\ Summed
    /\ Len(store) = 2
    /\ store[1].user_id = store[2].user_id
    /\ call.filter.UserID = store[1].user_id
    /\ store[1].price_rub # store[2].price_rub
    /\ call.filter.StartMonth # NULL /\ call.filter.EndMonth # NULL
    /\ SumOver(<<store[1]>>, call.filter) = 2 * store[1].price_rub
    /\ SumOver(<<store[2]>>, call.filter) = 2 * store[2].price_rub
    /\ call.total = 2 * (store[1].price_rub + store[2].price_rub)

----------------------------------------------------------------------------
\* The rows of owner id.
OwnedBy(rows, id) ==
    LET Mine(s) == s.user_id = id
    IN SelectSeq(rows, Mine)

\* The summary endpoint was asked with query parameters it accepts and the
\* database answered.
Answered == call.op = "summary" /\ call.queries = <<FALSE>>

(* C17: when an owner id is given, only the subscriptions of exactly that  *)
(* owner add to the total; when no stored subscription has that owner      *)
(* (the empty table included) SumByPeriod returns total 0 and no error,    *)
(* and the endpoint answers 200 with total_price 0.                        *)
C17_OwnerFilter ==
    (Answered /\ call.query.user_id # "") =>
        LET id == call.filter.UserID
            anyOwner == [call.filter EXCEPT !.UserID = NoUser]
        IN /\ id = uuidParse(call.query.user_id).id
           /\ ~call.err
           /\ call.total = Total(OwnedBy(store, id), anyOwner, MonthOf(now))
           /\ call.resp = JSON(StatusOK, TRUE, call.total, "")
           /\ (OwnedBy(store, id) = <<>> => call.total = 0)
           /\ \A r \in Rows(Window(MaxQueryMonths)) :
                LET both == summary(store \o <<r>>, call.query, FALSE, now)
                IN /\ both.resp.status = StatusOK
                   /\ both.resp.total_price
                        = Total(OwnedBy(store \o <<r>>, id), anyOwner, MonthOf(now))

\* The only row is another owner's and would have added to the total.
C17_Witness ==
    /\ Answered
    /\ call.query.user_id = "U1"
    /\ Len(store) = 1
    /\ store[1].user_id = "u2"
    /\ Total(store, [call.filter EXCEPT !.UserID = NoUser], MonthOf(now)) > 0
    /\ call.resp = JSON(StatusOK, TRUE, 0, "")

----------------------------------------------------------------------------
\* The rows whose service name is name, letter case aside.
NamedLike(rows, name) ==
    LET Same(s) == EqualFold(s.service_name, name)
    IN SelectSeq(rows, Same)

\* Stored names and filter texts around one name: other case, a longer
\* name, another name, blanks around it.
StoredNames == {<<"N">>, <<"n">>, <<"h">>, <<"H">>, <<"n", "h">>, <<"N", " ">>}
AskedNames == {<<"n">>, <<"N">>, <<" ", "N", " ">>, <<"H">>, <<"h", " ">>, <<"n", "h">>}

(* C18: a service-name filter keeps a subscription exactly when its        *)
(* service name equals the filter value with the blanks around it trimmed, *)
(* letter case aside: "n" matches "N", and no name that differs from it    *)
(* in more than case.                                                      *)
C18_ServiceNameFilter ==
    (Answered /\ TrimSpace(call.query.service_name) # <<>>) =>
        LET want == TrimSpace(call.query.service_name)
            anyName == [call.filter EXCEPT !.ServiceName = NoName]
        IN /\ call.filter.ServiceName = want
           /\ call.total = Total(NamedLike(store, want), anyName, MonthOf(now))
           /\ \A i \in 1..Len(store) : \A name \in StoredNames : \A text \in AskedNames :
                LET r == [store[i] EXCEPT !.service_name = name]
                    own == IF EqualFold(name, TrimSpace(text))
                           THEN Total(<<r>>, anyName, MonthOf(now)) ELSE 0
                IN /\ SumOver(<<r>>, [call.filter EXCEPT !.ServiceName = text]) = own
                   /\ summary(<<r>>, [call.query EXCEPT !.service_name = text],
                              FALSE, now).resp.total_price = own

\* The filter "n " kept a row named "N", which added to the total.
C18_Witness ==
    /\ Answered
    /\ call.query.service_name = <<"n", " ">>
    /\ Len(store) = 1
    /\ store[1].service_name = <<"N">>
    /\ call.filter.ServiceName = <<"n">>
    /\ call.total > 0

----------------------------------------------------------------------------
\* Service-name texts that are empty or all blanks.
BlankNames == {<<>>, <<" ">>, <<" ", " ">>}

(* C19: a service-name filter that is empty or only blanks is no filter:  *)
(* the total is the one computed without a service name, at the endpoint   *)
(* and in SumByPeriod.                                                     *)
C19_BlankServiceNameIsNoFilter ==
    (Answered /\ call.query.service_name \in BlankNames) =>
        /\ call.filter.ServiceName = NoName
        /\ \A text \in BlankNames :
            /\ summary(store, [call.query EXCEPT !.service_name = text], FALSE, now).resp
                    = call.resp
            /\ SumOver(store, [call.filter EXCEPT !.ServiceName = text]) = call.total
        /\ \A i \in 1..Len(store) : \A name \in StoredNames : \A text \in BlankNames :
            LET r == [store[i] EXCEPT !.service_name = name]
            IN /\ SumOver(<<r>>, [call.filter EXCEPT !.ServiceName = text])
                    = Contribution(store[i], call.filter, MonthOf(now))
               /\ summary(<<r>>, [call.query EXCEPT !.service_name = text],
                          FALSE, now).resp.total_price
                    = Contribution(store[i], call.filter, MonthOf(now))

\* A blank service_name was asked and the stored row added to the total.
C19_Witness ==
    /\ Answered
    /\ call.query.service_name = <<" ">>
    /\ Len(store) = 1
    /\ call.filter.ServiceName = NoName
    /\ call.total = Contribution(store[1], call.filter, MonthOf(now))
    /\ call.total > 0

----------------------------------------------------------------------------
\* The summary endpoint reached the database and the query failed.
QueryFailed == call.op = "summary" /\ call.queries # <<>> /\ call.queries[1]

(* C20: when the database query fails, SumByPeriod returns an error and    *)
(* total 0 after that one query (no second query, no part of the sum),     *)
(* and the summary endpoint answers 500 with an error and no total_price.  *)
C20_StorageFailureFailsTheSummary ==
    /\ QueryFailed =>
            /\ call.err
            /\ call.total = 0
            /\ call.queries = <<TRUE>>
            /\ call.resp.status = StatusInternalServerError
            /\ ~call.resp.has_total
            /\ call.resp.error # ""
            /\ SumByPeriod(store, call.filter, TRUE, now)
                    = [total |-> 0, err |-> TRUE, queries |-> <<TRUE>>]
    /\ (call.op = "summary" /\ call.resp.status = StatusInternalServerError)
            => QueryFailed
    /\ (call.op = "summary" /\ call.resp.has_total)
            => (call.resp.status = StatusOK /\ call.queries = <<FALSE>>)

\* The query failed on a table whose row would have added to the total.
C20_Witness ==
    /\ QueryFailed
    /\ Len(store) = 1
    /\ SumOver(store, call.filter) > 0
    /\ call.total = 0
    /\ call.resp.status = StatusInternalServerError

----------------------------------------------------------------------------
\* The months of 2025 and 2026, and the dates a text can name in them.
KnownMonths == (2025 * MonthsPerYear) .. (2026 * MonthsPerYear + 11)

\* The calendar months text names in one of the formats YYYY-MM, MM-YYYY,
\* YYYY-MM-DD, blanks around it aside: none when it is not a date.
MonthsRead(text) ==
    LET v == TrimSpace(text)
    IN IF Len(v) \notin {3, 5} THEN {}
       ELSE {MonthOf(d) : d \in {t \in Dates(KnownMonths) :
                \/ v = FormatYearMonth(t)
                \/ v = FormatMonthYear(t)
                \/ v = FormatFullDate(t)}}

(* C21: the summary endpoint answers 400 and does not call the service     *)
(* when start or end is given and is not a date, or when both are dates    *)
(* and end is before start; SumByPeriod is never called with a period      *)
(* whose end is before its start.                                          *)
C21_SummaryRejectsBadPeriod ==
    call.op = "summary" =>
        LET starts == MonthsRead(call.query.start)
            ends == MonthsRead(call.query.end)
        IN /\ (\/ call.query.start # <<>> /\ starts = {}
               \/ call.query.end # <<>> /\ ends = {}
               \/ \E a \in starts, b \in ends : Before(b, a))
                    => /\ call.resp.status = StatusBadRequest
                       /\ ~call.resp.has_total
                       /\ call.resp.error # ""
                       /\ call.queries = <<>>
           /\ call.queries # <<>>
                    => /\ ~(call.filter.StartMonth # NULL /\ call.filter.EndMonth # NULL
                                /\ Before(call.filter.EndMonth, call.filter.StartMonth))
                       /\ starts \subseteq {call.filter.StartMonth}
                       /\ ends \subseteq {call.filter.EndMonth}
                       /\ (call.query.start = <<>> <=> call.filter.StartMonth = NULL)
                       /\ (call.query.end = <<>> <=> call.filter.EndMonth = NULL)

\* A period from a day of January 2026 back to December 2025 was turned down.
C21_Witness ==
    /\ call.op = "summary"
    /\ call.query.start = <<"2026", "-", "01", "-", "02">>
    /\ call.query.end = <<"2025", "-", "12">>
    /\ call.resp = JSON(StatusBadRequest, FALSE, 0, "end must be after start")
    /\ call.queries = <<>>

----------------------------------------------------------------------------
(* C22: normalizeMonth takes a date to day 1 of its calendar month: dates  *)
(* of one month go to the same Month, dates of different months to         *)
(* different Months in the same order, and a Month goes to itself; the     *)
(* texts of one month in the formats YYYY-MM, MM-YYYY and YYYY-MM-DD parse *)
(* to the same Month.                                                      *)
C22_MonthNormalization ==
    /\ call.op = "normalizeMonth" =>
            LET t == call.range.start
                m == call.range.end
            IN /\ m = [ym |-> t.ym, d |-> 1]
               /\ normalizeMonth(m) = m
               /\ \A u \in Dates(Window(MaxTextMonths)) :
                    /\ (u.ym = t.ym => normalizeMonth(u) = m)
                    /\ (u.ym < t.ym => Before(normalizeMonth(u), m))
                    /\ (u.ym > t.ym => After(normalizeMonth(u), m))
                    /\ (normalizeMonth(u) = m => u.ym = t.ym)
    /\ (call.op = "parseMonth" /\ ~call.err) =>
            LET m == call.range.start
            IN /\ MonthsRead(call.query.start) = {m}
               /\ normalizeMonth(m) = m
               /\ \A u \in Dates(Window(MaxTextMonths)) :
                    LET ym == parseMonth(FormatYearMonth(u))
                        my == parseMonth(FormatMonthYear(u))
                        full == parseMonth(FormatFullDate(u))
                    IN /\ ym.err = "" /\ my.err = "" /\ full.err = ""
                       /\ ym.t = my.t /\ my.t = full.t
                       /\ (u.ym = m.ym <=> full.t = m)
    /\ (call.op = "parseMonth" /\ call.err) => MonthsRead(call.query.start) = {}

\* A full date of the second day of a month, a blank before it, was read as
\* the first day of that month.
C22_Witness ==
    /\ call.op = "parseMonth"
    /\ call.query.start = <<" ", "2026", "-", "03", "-", "02">>
    /\ ~call.err
    /\ call.range.start = Date(2026, 3, 1)

----------------------------------------------------------------------------
\* The subscription ends before the month it starts in.
EndsBeforeItStarts(s) == s.end_month # NULL /\ s.end_month.ym < s.start_month.ym

(* C23: after any sequence of create, update and delete requests, accepted *)
(* or not, every stored subscription has no end month or an end month not  *)
(* before its start month; an update of the end month alone or of the      *)
(* start month alone does not get a row past this.                         *)
C23_StoredEndNotBeforeStart ==
    /\ \A i \in 1..Len(store) : ~EndsBeforeItStarts(store[i])
    /\ (call.op = "update" /\ call.called /\ call.resp.status = StatusOK) =>
            \A i \in 1..Len(store) :
                store[i].id = uuidParse(call.id).id =>
                    /\ (call.params.StartMonth # NULL
                            => store[i].start_month = call.params.StartMonth)
                    /\ (call.params.EndMonthSet
                            => store[i].end_month = call.params.EndMonth)
    /\ (call.op = "update" /\ call.resp.status # StatusOK) => store = call.before

\* An update of the end month alone, to a month before the stored start,
\* reached the table and was turned down by it: the row is as it was.
C23_Witness ==
    /\ call.op = "update"
    /\ call.req.start_date = NoName
    /\ call.called
    /\ call.params.EndMonthSet
    /\ \E i \in 1..Len(call.before) :
            /\ call.before[i].id = uuidParse(call.id).id
            /\ Before(call.params.EndMonth, call.before[i].start_month)
    /\ call.resp.status = StatusInternalServerError
    /\ store = call.before

----------------------------------------------------------------------------
\* The dates of a create request are in order: start_date names a month,
\* and end_date, when given and not blank, names a month not before it.
DatesInOrder(req) ==
    LET starts == MonthsRead(req.start_date)
        given == req.end_date # NoName /\ TrimSpace(req.end_date) # <<>>
        ends == MonthsRead(req.end_date)
    IN /\ starts # {}
       /\ given => /\ ends # {}
                   /\ \A a \in starts, b \in ends : ~Before(b, a)

(* C24: a create request reaches the store's Create only if start_date     *)
(* parses as a month and end_date, when given and not blank, parses and is *)
(* not before start_date, and 201 is the answer to Create's success;       *)
(* otherwise the answer is 400, the store is not called and nothing is     *)
(* stored.                                                                 *)
C24_CreateValidatesDates ==
    call.op = "create" =>
        /\ call.called => DatesInOrder(call.req)
        /\ ~DatesInOrder(call.req)
                => /\ call.resp.status = StatusBadRequest
                   /\ ~call.called
                   /\ store = call.before
        /\ ~call.called => (call.resp.status = StatusBadRequest /\ store = call.before)
        /\ call.called => call.resp.status \in {StatusCreated, StatusInternalServerError}
        /\ call.resp.status = StatusInternalServerError => store = call.before
        /\ call.resp.status = StatusCreated
                => /\ call.called
                   /\ Len(store) = Len(call.before) + 1
                   /\ SubSeq(store, 1, Len(call.before)) = call.before
                   /\ MonthsRead(call.req.start_date) = {store[Len(store)].start_month}
                   /\ MonthsRead(call.req.end_date) \subseteq {store[Len(store)].end_month}
                   /\ (store[Len(store)].end_month = NULL
                            <=> MonthsRead(call.req.end_date) = {})

\* A create request whose end_date is the month before its start_date was
\* answered 400 without a call to the store.
C24_Witness ==
    /\ call.op = "create"
    /\ call.req.start_date = <<"2026", "-", "01">>
    /\ call.req.end_date = <<"2025", "-", "12">>
    /\ call.resp = JSON(StatusBadRequest, FALSE, 0, "end_date cannot be before start_date")
    /\ ~call.called
    /\ store = call.before

----------------------------------------------------------------------------
\* The texts of the positive integers.
PositiveTexts == {<<"1">>, <<"2">>, <<"3">>, <<"20">>, <<"150">>}

\* The limit parameter is absent or is not a positive integer.
NoUsableLimit(q) == q.limit = NoName \/ TrimSpace(q.limit) \notin PositiveTexts

(* C25: when the limit query parameter is absent or not a positive         *)
(* integer, the list endpoint passes limit 20 to the store and echoes      *)
(* limit 20 in the response.                                               *)
C25_DefaultLimitIsTwenty ==
    (listing.pc # "idle" /\ NoUsableLimit(listing.query)) =>
        /\ listing.opts.Limit = 20
        /\ listing.sql.limit = 20
        /\ listing.limit = 20

\* What the list endpoint does: without a usable limit the page size is
\* defaultLimit, and no page of such a request holds more rows than that.
C25_DefaultLimitIsDefaultLimit ==
    (listing.pc # "idle" /\ NoUsableLimit(listing.query)) =>
        /\ listing.opts.Limit = defaultLimit
        /\ listing.sql.limit = defaultLimit
        /\ listing.limit = defaultLimit
        /\ Len(listing.items) <= defaultLimit

\* A List without a limit parameter was answered.
C25_Seen ==
    /\ listing.pc = "done"
    /\ listing.status = StatusOK
    /\ listing.query.limit = NoName
    /\ listing.limit = 2

(* C26: under any interleaving of List with create and delete requests,    *)
(* the total List returns is the number of subscriptions stored when its   *)
(* page of items was read.                                                 *)
C26_TotalIsCountAtPageRead ==
    (listing.pc = "done" /\ listing.status = StatusOK) =>
        listing.total = Len(listing.read)

\* What List does: the total is the number of rows at its count query.
C26_TotalIsCountAtCountQuery ==
    [][(listing.pc = "count" /\ listing'.pc = "done" /\ listing'.status = StatusOK)
            => listing'.total = Len(store)]_vars

\* A List read an empty page of an empty table and returned total 1.
C26_Seen ==
    /\ listing.pc = "done"
    /\ listing.status = StatusOK
    /\ listing.read = <<>>
    /\ listing.items = <<>>
    /\ listing.total = 1

====
